---- MODULE Spec2Model ----
(***************************************************************************)
(* jsonrpcbase: the transport-independent JSON-RPC core                    *)
(* (src/jsonrpcbase/main.py, class JSONRPCService).                        *)
(*                                                                         *)
(* Python values are tagged records [type, val]: type is the Python type   *)
(* name and val a printable label of the value.  A Python dict with        *)
(* optional keys is a record that carries Absent under a missing key.      *)
(***************************************************************************)
EXTENDS Integers, Sequences, FiniteSets, TLC

VARIABLES
    method_data,   \* self.method_data: name -> {'method': f, 'schema': schema}
    pc,            \* "idle": the embedder may add or call; "returned": the call has returned
    rdata,         \* the argument of the last call_py (Absent: call did not reach call_py)
    out,           \* what the last call_py returned (or the exception it let escape)
    calls,         \* the handler invocations the last call_py made, in order
    jsondata,      \* the text given to the last call (Absent: call_py was called directly)
    json_out,      \* what the last call returned (or the exception it let escape)
    added          \* history: per name, the function and schema of the last add under it

vars == <<method_data, pc, rdata, out, calls, jsondata, json_out, added>>

\* ---------------------------------------------------------------- values

JV(t, v) == [type |-> t, val |-> v]
Absent == JV("absent", "")          \* the key is not in the dict
JNull == JV("NoneType", "None")     \* json null / Python None
JStr(s) == JV("str", s)
JInt(s) == JV("int", s)
JBool(s) == JV("bool", s)
JFloat(s) == JV("float", s)
JList(s) == JV("list", s)
JDict(s) == JV("dict", s)

\* DEFAULT_JSONRPC = (2, 0); versions are tuples of integers inside the service
Tuple(s) == JV("tuple", s)
DEFAULT_JSONRPC == Tuple("(2, 0)")
Ver11 == Tuple("(1, 1)")

\* ---------------------------------------------------------------- bounds and input sets

MaxBatch == 2

\* keys of the registry; "foofoo" is a method name nobody registers
Names == {"hello", "broken_func"}
Handlers == {"hello", "broken_func"}
Schemas == {"None", "object"}       \* no schema, or {"type": "object"}
Metadata == JNull

AddNames == {"None", "hello"}       \* add's name argument; "None": not given

NotRegistered == [method |-> "", schema |-> ""]

IdValues ==
    {Absent, JStr("1"), JInt("2"), JFloat("1.5"), JNull, JBool("True"), JList("[5]"),
     JDict("{'a': 5}")}
JsonrpcValues == {Absent, JStr("2.0"), JStr("9999"), JNull}
VersionValues == {Absent, JStr("1.1"), JStr("9999"), JFloat("1.1")}
MethodValues == {Absent, JInt("1"), JStr("hello"), JStr("broken_func"), JStr("foofoo")}
ParamsValues ==
    {Absent, JNull, JList("[5]"), JList("[-32603]"), JDict("{'a': 5}"), JStr("bar")}

\* a decoded JSON object with the five envelope keys; other: it has some other key
Obj(i, j, v, m, p, o) ==
    [type |-> "dict", val |-> "", id |-> i, jsonrpc |-> j, version |-> v,
     method |-> m, params |-> p, other |-> o]

SingleRequests ==
    {Obj(i, j, v, m, p, FALSE) : i \in IdValues, j \in JsonrpcValues,
        v \in VersionValues, m \in MethodValues, p \in ParamsValues}
    \cup {Obj(Absent, Absent, Absent, Absent, Absent, TRUE)}     \* {"foo": "boo"}

Scalars == {JInt("1"), JStr("x"), JNull, JBool("True")}

\* the entries batches are built from: the (jsonrpc, version) fields name
\* 2.0, name 1.1 or are both missing; the (method, params) fields are those of
\* the tests' batches; a number, a string, null and a list are the entries that
\* are no object; and one entry has an id of the wrong type
NoObjects == {JInt("1"), JStr("x"), JNull, JList("[5]")}
BatchVersions == {<<JStr("2.0"), Absent>>, <<Absent, JStr("1.1")>>, <<Absent, Absent>>}
BatchCalls ==
    {<<JStr("hello"), Absent>>, <<JStr("hello"), JDict("{'a': 5}")>>,
     <<JStr("broken_func"), Absent>>}
BatchEntries ==
    {Obj(i, jv[1], jv[2], mp[1], mp[2], FALSE) :
        i \in {Absent, JStr("1"), JInt("2")}, jv \in BatchVersions, mp \in BatchCalls}
    \cup NoObjects
    \cup {Obj(JBool("True"), JStr("2.0"), Absent, JStr("hello"), Absent, FALSE)}

SeqsUpTo(S, n) == UNION {[1..k -> S] : k \in 0..n}
PyList(items) == [type |-> "list", val |-> "", items |-> items]
Batches == {PyList(s) : s \in SeqsUpTo(BatchEntries, MaxBatch)}

Rdatas == SingleRequests \cup Scalars \cup Batches

\* ---------------------------------------------------------------- error taxonomy

NoData ==
    [kind |-> "None", details |-> "", method |-> "", available_methods |-> {}]
Details(s) == [NoData EXCEPT !.kind = "details", !.details = s]
AvailableMethods(S) ==
    [NoData EXCEPT !.kind = "available_methods", !.available_methods = S]
DetailsMethod(s, m) ==
    [NoData EXCEPT !.kind = "details+method", !.details = s, !.method = m]

\* an exception object: its class, the data given to JSONRPCError.__init__, and
\* its `message` attribute when it has one
Exc(cls, data, hasmessage, message) ==
    [cls |-> cls, data |-> data, hasmessage |-> hasmessage, message |-> message]
NoException == Exc("", NoData, FALSE, Absent)
JSONRPCErrorClasses ==
    {"ParseError", "InvalidRequestError", "MethodNotFoundError", "InternalError",
     "ServerError"}

Code(cls) ==
    CASE cls = "ParseError" -> -32700
      [] cls = "InvalidRequestError" -> -32600
      [] cls = "MethodNotFoundError" -> -32601
      [] cls = "InternalError" -> -32603
      [] cls = "ServerError" -> -32000
      [] OTHER -> 0

Message(cls) ==
    CASE cls = "ParseError" -> "Parse error"
      [] cls = "InvalidRequestError" -> "Invalid Request"
      [] cls = "MethodNotFoundError" -> "Method not found"
      [] cls = "InternalError" -> "Internal error"
      [] cls = "ServerError" -> "Server error"
      [] OTHER -> "None"

\* JSONRPCError.__init__ of one of the subclasses; message is the class attribute
JSONRPCError(cls, data) == Exc(cls, data, TRUE, JStr(Message(cls)))

\* JSONRPCError.dumps: 'data' is a key only when self.data is not None
dumps(e) ==
    [code |-> Code(e.cls), message |-> Message(e.cls), data |-> e.data]
NoError == [code |-> 0, message |-> "", data |-> NoData]

\* ---------------------------------------------------------------- envelope builder

\* a response dict: keys is the set of its keys
EmptyDict ==
    [py |-> "dict", keys |-> {}, id |-> Absent, jsonrpc |-> Absent,
     version |-> Absent, result |-> Absent, error |-> NoError]
PyNone == [EmptyDict EXCEPT !.py = "None"]
SetItem(d, k, v) == [d EXCEPT ![k] = v, !.keys = @ \cup {k}]

_fill_ver(ver, respond) ==
    IF ver = Tuple("(2, 0)") THEN SetItem(respond, "jsonrpc", JStr("2.0"))
    ELSE IF ver = Tuple("(1, 1)") THEN SetItem(respond, "version", JStr("1.1"))
    ELSE respond

\* a variant that keeps silent on a parse error without id, as on other errors
_get_err_parse_error_silent(e, id, jsonrpc) ==
    IF id = JNull /\ e.cls # "InvalidRequestError"
    THEN PyNone
    ELSE SetItem(_fill_ver(jsonrpc, SetItem(EmptyDict, "id", id)), "error", dumps(e))

\* a variant that keeps silent on an invalid request without id
_get_err_invalid_request_silent(e, id, jsonrpc) ==
    IF id = JNull /\ e.cls # "ParseError"
    THEN PyNone
    ELSE SetItem(_fill_ver(jsonrpc, SetItem(EmptyDict, "id", id)), "error", dumps(e))

_get_err(e, id, jsonrpc) ==
    IF id = JNull /\ e.cls # "ParseError" /\ e.cls # "InvalidRequestError"
    THEN PyNone
    ELSE SetItem(_fill_ver(jsonrpc, SetItem(EmptyDict, "id", id)), "error", dumps(e))

\* a variant that stamps the default dialect whatever the request's
_invalid_params_response_default_ver(err, id, jsonrpc) ==
    SetItem(_fill_ver(DEFAULT_JSONRPC, SetItem(EmptyDict, "id", id)), "error",
            [code |-> -32602, message |-> "Invalid params",
             data |-> Details(err.message.val)])

_invalid_params_response(err, id, jsonrpc) ==
    SetItem(_fill_ver(jsonrpc, SetItem(EmptyDict, "id", id)), "error",
            [code |-> -32602, message |-> "Invalid params",
             data |-> Details(err.message.val)])

\* '.'.join(str(i) for i in ver)
JoinVer(ver) ==
    CASE ver = Tuple("(2, 0)") -> JStr("2.0")
      [] ver = Tuple("(1, 1)") -> JStr("1.1")

\* a request dict; method and params are set by _fill_request only
_get_default_vals ==
    [jsonrpc |-> JoinVer(DEFAULT_JSONRPC), id |-> JNull, method |-> Absent,
     params |-> Absent]

\* ---------------------------------------------------------------- request normalizer

\* (the source's messages quote id and params with backquotes, written ' here)
\* the outcome of a step: the exception it raised (NoException: none) and its value
Returns(v) == [raised |-> NoException, value |-> v]
Raises(e) == [raised |-> e, value |-> Absent]

\* a variant that looks at the version field first
_get_jsonrpc_version_first(r) ==
    IF r.version = JStr("1.1") THEN Returns(Tuple("(1, 1)"))
    ELSE IF r.jsonrpc = JStr("2.0") THEN Returns(Tuple("(2, 0)"))
    ELSE IF r.jsonrpc # Absent \/ r.version # Absent
    THEN Raises(JSONRPCError("InvalidRequestError", Details("Invalid JSON-RPC version")))
    ELSE Raises(JSONRPCError("InvalidRequestError", Details("Missing JSON-RPC version")))

_get_jsonrpc(r) ==
    IF r.jsonrpc = JStr("2.0") THEN Returns(Tuple("(2, 0)"))
    ELSE IF r.version = JStr("1.1") THEN Returns(Tuple("(1, 1)"))
    ELSE IF r.jsonrpc # Absent \/ r.version # Absent
    THEN Raises(JSONRPCError("InvalidRequestError", Details("Invalid JSON-RPC version")))
    ELSE Raises(JSONRPCError("InvalidRequestError", Details("Missing JSON-RPC version")))

_get_id(r) ==
    IF r.id # Absent
    THEN IF r.id.type \in {"str", "int", "float"}
         THEN Returns(r.id)
         ELSE Raises(JSONRPCError("InvalidRequestError",
                                  Details("Invalid type for the 'id' field")))
    ELSE Returns(JNull)

\* a variant that reports an unregistered method as an invalid request
_get_method_no_lookup_error(r, md) ==
    IF r.method = Absent
    THEN Raises(JSONRPCError("InvalidRequestError",
                             Details("The required \"method\" field is missing")))
    ELSE IF r.method.type # "str"
            \/ r.method.val \notin {n \in DOMAIN md : md[n] # NotRegistered}
    THEN Raises(JSONRPCError("InvalidRequestError",
             Details("Invalid type for the \"method\" field; must be a string")))
    ELSE Returns(r.method)

_get_method(r, md) ==
    IF r.method = Absent
    THEN Raises(JSONRPCError("InvalidRequestError",
                             Details("The required \"method\" field is missing")))
    ELSE IF r.method.type # "str"
    THEN Raises(JSONRPCError("InvalidRequestError",
             Details("Invalid type for the \"method\" field; must be a string")))
    ELSE IF r.method.val \notin {n \in DOMAIN md : md[n] # NotRegistered}
    THEN Raises(JSONRPCError("MethodNotFoundError",
             AvailableMethods({n \in DOMAIN md : md[n] # NotRegistered})))
    ELSE Returns(r.method)

\* type(rdata['params']) in (dict, list, None): the type of None is NoneType, so
\* a null params value is in none of the three
_get_params(r) ==
    IF r.params # Absent
    THEN IF r.params.type \in {"dict", "list"}
         THEN Returns(r.params)
         ELSE Raises(JSONRPCError("InvalidRequestError",
                                  Details("Invalid type for the 'params' field")))
    ELSE Returns(JNull)

\* a variant that runs the params step before the method step
_fill_request_params_first(request, r, md) ==
    IF r.type # "dict"
    THEN [raised |-> JSONRPCError("InvalidRequestError", NoData), request |-> request]
    ELSE LET i == _get_id(r)
             r1 == [request EXCEPT !.id = i.value]
             j == _get_jsonrpc(r)
             r2 == [r1 EXCEPT !.jsonrpc = j.value]
             p == _get_params(r)
             r3 == [r2 EXCEPT !.params = p.value]
             m == _get_method(r, md)
             r4 == [r3 EXCEPT !.method = m.value]
         IN  IF i.raised # NoException THEN [raised |-> i.raised, request |-> request]
             ELSE IF j.raised # NoException THEN [raised |-> j.raised, request |-> r1]
             ELSE IF p.raised # NoException THEN [raised |-> p.raised, request |-> r2]
             ELSE IF m.raised # NoException THEN [raised |-> m.raised, request |-> r3]
             ELSE [raised |-> NoException, request |-> r4]

\* a variant that reports an entry that is no object as an internal error
_fill_request_internal_error(request, r, md) ==
    IF r.type # "dict"
    THEN [raised |-> JSONRPCError("InternalError", NoData), request |-> request]
    ELSE LET i == _get_id(r)
             r1 == [request EXCEPT !.id = i.value]
             j == _get_jsonrpc(r)
             r2 == [r1 EXCEPT !.jsonrpc = j.value]
             m == _get_method(r, md)
             r3 == [r2 EXCEPT !.method = m.value]
             p == _get_params(r)
             r4 == [r3 EXCEPT !.params = p.value]
         IN  IF i.raised # NoException THEN [raised |-> i.raised, request |-> request]
             ELSE IF j.raised # NoException THEN [raised |-> j.raised, request |-> r1]
             ELSE IF m.raised # NoException THEN [raised |-> m.raised, request |-> r2]
             ELSE IF p.raised # NoException THEN [raised |-> p.raised, request |-> r3]
             ELSE [raised |-> NoException, request |-> r4]

\* _fill_request: the exception raised (if any) and the request as far as it was filled
_fill_request(request, r, md) ==
    IF r.type # "dict"
    THEN [raised |-> JSONRPCError("InvalidRequestError", NoData), request |-> request]
    ELSE LET i == _get_id(r)
             r1 == [request EXCEPT !.id = i.value]
             j == _get_jsonrpc(r)
             r2 == [r1 EXCEPT !.jsonrpc = j.value]
             m == _get_method(r, md)
             r3 == [r2 EXCEPT !.method = m.value]
             p == _get_params(r)
             r4 == [r3 EXCEPT !.params = p.value]
         IN  IF i.raised # NoException THEN [raised |-> i.raised, request |-> request]
             ELSE IF j.raised # NoException THEN [raised |-> j.raised, request |-> r1]
             ELSE IF m.raised # NoException THEN [raised |-> m.raised, request |-> r2]
             ELSE IF p.raised # NoException THEN [raised |-> p.raised, request |-> r3]
             ELSE [raised |-> NoException, request |-> r4]

\* ---------------------------------------------------------------- handlers and schemas

\* the registered functions, called as method(params, metadata):
\*   hello        returns "Hello world!" without params, else its params
\*   register     registers hello under its own name and returns None
\*   broken_func  raises: TypeError() without params, InternalError() for the
\*                list [-32603], an exception whose message attribute is a
\*                string for another list, and one whose message attribute is
\*                not a string for a mapping
Invoke(f, params, metadata) ==
    CASE f = "hello" ->
            Returns(IF params = JNull THEN JStr("Hello world!") ELSE params)
      [] f = "register" -> Returns(JNull)
      [] f = "broken_func" ->
            CASE params = JNull -> Raises(Exc("TypeError", NoData, FALSE, Absent))
              [] params = JList("[-32603]") ->
                    Raises(JSONRPCError("InternalError", NoData))
              [] params.type = "list" /\ params # JList("[-32603]") ->
                    Raises(Exc("AuthError", NoData, TRUE, JStr("boom")))
              [] OTHER -> Raises(Exc("CodedError", NoData, TRUE, JInt("5")))

\* the registry as the function leaves it: register calls service.add(hello),
\* the other functions do not touch the service
Effect(f, params, md) ==
    IF f = "register"
    THEN [md EXCEPT !["hello"] = [method |-> "hello", schema |-> "None"]]
    ELSE md

\* jsonschema.validate(params, {"type": "object"})
validate(params, schema) ==
    IF schema = "object" /\ params.type # "dict"
    THEN Raises(Exc("ValidationError", NoData, TRUE,
                    JStr(params.val \o " is not of type 'object'")))
    ELSE Returns(JNull)

\* ---------------------------------------------------------------- dispatcher

\* one handler invocation, as recorded in calls
Invocation(request, f, metadata) ==
    [name |-> request.method.val, method |-> f, params |-> request.params,
     metadata |-> metadata]

\* a variant that lets a JSONRPCError raised by the function pass unwrapped
_call_method_reraise(request, metadata, md) ==
    LET method == md[request.method.val].method
        schema == md[request.method.val].schema
        params == request.params
        v == validate(params, schema)
        h == Invoke(method, params, metadata)
        err == h.raised
        invoked == <<Invocation(request, method, metadata)>>
        after == Effect(method, params, md)
    IN  IF schema # "None" /\ v.raised # NoException
        THEN [raised |-> v.raised, value |-> Absent, invoked |-> <<>>, md |-> md]
        ELSE IF err # NoException /\ err.cls \in JSONRPCErrorClasses
        THEN [raised |-> err, value |-> Absent, invoked |-> invoked, md |-> after]
        ELSE IF err # NoException
        THEN IF err.hasmessage
             THEN IF err.message.type = "str"
                  THEN [raised |-> JSONRPCError("ServerError",
                            DetailsMethod(err.cls \o ": " \o err.message.val,
                                          request.method.val)),
                        value |-> Absent, invoked |-> invoked, md |-> after]
                  \* ': ' + err.message raises TypeError inside the except block
                  ELSE [raised |-> Exc("TypeError", NoData, FALSE, Absent),
                        value |-> Absent, invoked |-> invoked, md |-> after]
             ELSE [raised |-> JSONRPCError("ServerError",
                                  DetailsMethod(err.cls, request.method.val)),
                   value |-> Absent, invoked |-> invoked, md |-> after]
        ELSE [raised |-> NoException, value |-> h.value, invoked |-> invoked, md |-> after]

\* _call_method: the exception raised or the value returned, the invocations
\* made (none when the schema rejects the params) and the registry afterwards
_call_method(request, metadata, md) ==
    LET method == md[request.method.val].method
        schema == md[request.method.val].schema
        params == request.params
        v == validate(params, schema)
        h == Invoke(method, params, metadata)
        err == h.raised
        invoked == <<Invocation(request, method, metadata)>>
        after == Effect(method, params, md)
    IN  IF schema # "None" /\ v.raised # NoException
        THEN [raised |-> v.raised, value |-> Absent, invoked |-> <<>>, md |-> md]
        ELSE IF err # NoException
        THEN IF err.hasmessage
             THEN IF err.message.type = "str"
                  THEN [raised |-> JSONRPCError("ServerError",
                            DetailsMethod(err.cls \o ": " \o err.message.val,
                                          request.method.val)),
                        value |-> Absent, invoked |-> invoked, md |-> after]
                  \* ': ' + err.message raises TypeError inside the except block
                  ELSE [raised |-> Exc("TypeError", NoData, FALSE, Absent),
                        value |-> Absent, invoked |-> invoked, md |-> after]
             ELSE [raised |-> JSONRPCError("ServerError",
                                  DetailsMethod(err.cls, request.method.val)),
                   value |-> Absent, invoked |-> invoked, md |-> after]
        ELSE [raised |-> NoException, value |-> h.value, invoked |-> invoked, md |-> after]

\* a variant that answers with the request's params in place of the result
_handle_request_echo(request, metadata, md) ==
    LET c == _call_method(request, metadata, md)
    IN  IF c.raised # NoException THEN c
        ELSE IF request.id = JNull THEN [c EXCEPT !.value = PyNone]
        ELSE [c EXCEPT !.value =
                SetItem(SetItem(_fill_ver(request.jsonrpc, EmptyDict),
                                "result", request.params), "id", request.id)]

_handle_request(request, metadata, md) ==
    LET c == _call_method(request, metadata, md)
    IN  IF c.raised # NoException THEN c
        ELSE IF request.id = JNull THEN [c EXCEPT !.value = PyNone]
        ELSE [c EXCEPT !.value =
                SetItem(SetItem(_fill_ver(request.jsonrpc, EmptyDict),
                                "result", c.value), "id", request.id)]

\* ---------------------------------------------------------------- call_py

\* what call_py hands back: None, a response dict, a list of responses, or an
\* exception it did not catch
Out(py, resp, list, exc) == [py |-> py, resp |-> resp, list |-> list, exc |-> exc]
Return(v) ==
    IF v.py = "None" THEN Out("None", EmptyDict, <<>>, NoException)
    ELSE Out("dict", v, <<>>, NoException)
ReturnList(l) == Out("list", EmptyDict, l, NoException)
Propagate(e) == Out("raise", EmptyDict, <<>>, e)

\* a variant that stamps every error with the version held by the request dict
Except_request_ver(e, request) ==
    IF e.cls \in JSONRPCErrorClasses
    THEN Return(_get_err(e, request.id, request.jsonrpc))
    ELSE IF e.cls = "ValidationError"
    THEN Return(_invalid_params_response(e, request.id, request.jsonrpc))
    ELSE Propagate(e)

\* the except clauses that close call_py's try block, in their order
Except(e, request) ==
    IF e.cls = "InvalidRequestError"
    THEN Return(_get_err(e, request.id, DEFAULT_JSONRPC))
    ELSE IF e.cls \in JSONRPCErrorClasses
    THEN Return(_get_err(e, request.id, request.jsonrpc))
    ELSE IF e.cls = "ValidationError"
    THEN Return(_invalid_params_response(e, request.id, request.jsonrpc))
    ELSE Propagate(e)

\* the first loop of the batch branch, from entry i on
RECURSIVE FillAll(_, _, _, _, _)

\* a variant that normalizes each entry against the registry as the functions
\* of the entries before it leave it
FillAll_sees_handlers(items, i, requests, responds, md) ==
    IF i > Len(items) THEN [requests |-> requests, responds |-> responds]
    ELSE LET f == _fill_request(_get_default_vals, items[i], md)
             err == _get_err(f.raised, f.request.id, DEFAULT_JSONRPC)
         IN  IF f.raised # NoException
             THEN FillAll(items, i + 1, requests,
                          IF err.py # "None" THEN Append(responds, err) ELSE responds,
                          md)
             ELSE FillAll(items, i + 1, Append(requests, f.request), responds,
                          _handle_request(f.request, Metadata, md).md)

FillAll(items, i, requests, responds, md) ==
    IF i > Len(items) THEN [requests |-> requests, responds |-> responds]
    ELSE LET f == _fill_request(_get_default_vals, items[i], md)
             err == _get_err(f.raised, f.request.id, DEFAULT_JSONRPC)
         IN  IF f.raised # NoException
             THEN FillAll(items, i + 1, requests,
                          IF err.py # "None" THEN Append(responds, err) ELSE responds,
                          md)
             ELSE FillAll(items, i + 1, Append(requests, f.request), responds, md)

\* the second loop of the batch branch, from request i on; HandleNext is the
\* body of the loop once _handle_request has returned or raised h
RECURSIVE HandleAll(_, _, _, _, _, _)
RECURSIVE HandleNext(_, _, _, _, _, _, _)
HandleAll(requests, i, responds, invoked, metadata, md) ==
    IF i > Len(requests)
    THEN [raised |-> NoException, responds |-> responds, invoked |-> invoked,
          md |-> md]
    ELSE HandleNext(requests, i, responds, invoked, metadata, md,
                    _handle_request(requests[i], metadata, md))

Respond(request, h) ==
    IF h.raised # NoException
    THEN _get_err(h.raised, request.id, request.jsonrpc)
    ELSE h.value

AppendRespond(responds, respond) ==
    IF respond.py # "None" THEN Append(responds, respond) ELSE responds

HandleNext(requests, i, responds, invoked, metadata, md, h) ==
    IF h.raised # NoException /\ h.raised.cls \notin JSONRPCErrorClasses
    THEN [raised |-> h.raised, responds |-> responds, invoked |-> invoked \o h.invoked,
          md |-> h.md]
    ELSE HandleAll(requests, i + 1, AppendRespond(responds, Respond(requests[i], h)),
                   invoked \o h.invoked, metadata, h.md)

\* the single-request branch once _fill_request has returned or raised f, and
\* once _handle_request has returned or raised h
SingleHandled(f, h) ==
    IF h.raised # NoException
    THEN [out |-> Except(h.raised, f.request), calls |-> h.invoked, md |-> h.md]
    ELSE [out |-> Return(h.value), calls |-> h.invoked, md |-> h.md]

SingleFilled(f, metadata, md) ==
    IF f.raised # NoException
    THEN [out |-> Except(f.raised, f.request), calls |-> <<>>, md |-> md]
    ELSE SingleHandled(f, _handle_request(f.request, metadata, md))

\* the batch branch once its second loop has ended or raised (q)
BatchHandled(q, request) ==
    IF q.raised # NoException
    THEN [out |-> Except(q.raised, request), calls |-> q.invoked, md |-> q.md]
    ELSE IF Len(q.responds) > 0
    THEN [out |-> ReturnList(q.responds), calls |-> q.invoked, md |-> q.md]
    ELSE [out |-> Return(PyNone), calls |-> q.invoked, md |-> q.md]

\* the batch branch once its first loop has ended (p)
BatchFilled(p, request, metadata, md) ==
    BatchHandled(HandleAll(p.requests, 1, p.responds, <<>>, metadata, md), request)

\* call_py: what it returns, the handler invocations it made, and the registry
\* as the handlers left it
call_py(rd, metadata, md) ==
    IF rd.type = "dict"
       /\ (rd.other \/ \E k \in {"id", "jsonrpc", "version", "method", "params"} :
                            rd[k] # Absent)
    THEN SingleFilled(_fill_request(_get_default_vals, rd, md), metadata, md)
    ELSE IF rd.type = "list"
    THEN IF Len(rd.items) = 0
         THEN [out |-> Except(JSONRPCError("InvalidRequestError",
                                  Details("Batch request array is empty")),
                              _get_default_vals),
               calls |-> <<>>, md |-> md]
         ELSE BatchFilled(FillAll(rd.items, 1, <<>>, <<>>, md), _get_default_vals,
                          metadata, md)
    ELSE [out |-> Except(JSONRPCError("InvalidRequestError", NoData), _get_default_vals),
          calls |-> <<>>, md |-> md]

\* ---------------------------------------------------------------- json texts

\* a JSON text is a sequence of tokens: the punctuation of an array, a complete
\* scalar or object literal (written as the value it decodes to), or an object
\* literal that is cut off after a key
Tok(s) == JV("token", s)
Truncated == Tok("{\"jsonrpc\": \"2.0\", \"method\"")
IsTok(t) == t.type = "token"
JText(tokens) == [type |-> "str", val |-> "", tokens |-> tokens]

\* json.JSONDecodeError, a ValueError (the position in the message is left out)
JSONDecodeError(msg) == Exc("JSONDecodeError", NoData, FALSE, JStr(msg))
str(err) == err.message.val

\* the decoder at a position where a value must start
ExpectingValue(t) ==
    IF t = Truncated THEN JSONDecodeError("Expecting ':' delimiter")
    ELSE JSONDecodeError("Expecting value")

\* the array decoder: tokens[i] is the first token after "[" or after ","
RECURSIVE JSONArray(_, _, _)
JSONArray(tokens, i, items) ==
    IF i > Len(tokens) THEN Raises(JSONDecodeError("Expecting value"))
    ELSE IF IsTok(tokens[i])
    THEN IF tokens[i] = Tok("]") /\ items = <<>>
         THEN IF i = Len(tokens) THEN Returns(PyList(<<>>))
              ELSE Raises(JSONDecodeError("Extra data"))
         ELSE Raises(ExpectingValue(tokens[i]))
    ELSE IF i + 1 > Len(tokens)
    THEN Raises(JSONDecodeError("Expecting ',' delimiter"))
    ELSE IF tokens[i + 1] = Tok("]")
    THEN IF i + 1 = Len(tokens) THEN Returns(PyList(Append(items, tokens[i])))
         ELSE Raises(JSONDecodeError("Extra data"))
    ELSE IF tokens[i + 1] = Tok(",")
    THEN JSONArray(tokens, i + 2, Append(items, tokens[i]))
    ELSE Raises(JSONDecodeError("Expecting ',' delimiter"))

\* json.loads(jsondata)
json_loads(text) ==
    LET tokens == text.tokens
    IN  IF Len(tokens) = 0 THEN Raises(JSONDecodeError("Expecting value"))
        ELSE IF tokens[1] = Tok("[") THEN JSONArray(tokens, 2, <<>>)
        ELSE IF IsTok(tokens[1]) THEN Raises(ExpectingValue(tokens[1]))
        ELSE IF Len(tokens) > 1 THEN Raises(JSONDecodeError("Extra data"))
        ELSE Returns(tokens[1])

\* the items of a list, separated by commas
RECURSIVE Join(_, _)
Join(l, i) ==
    IF i > Len(l) THEN <<>>
    ELSE IF i = Len(l) THEN <<l[i]>>
    ELSE <<l[i], Tok(",")>> \o Join(l, i + 1)

\* json.dumps(o) of what call_py or _get_err returned
json_dumps(o) ==
    IF o.py = "None" THEN JText(<<JNull>>)
    ELSE IF o.py = "dict" THEN JText(<<o.resp>>)
    ELSE JText(<<Tok("[")>> \o Join(o.list, 1) \o <<Tok("]")>>)

\* ---------------------------------------------------------------- call

\* what call hands back: None, a JSON text, or an exception it did not catch
CallOut(py, text, exc) == [py |-> py, text |-> text, exc |-> exc]
NoText == JText(<<>>)
ReturnNone == CallOut("None", NoText, NoException)
ReturnText(text) == CallOut("str", text, NoException)

\* call once call_py has returned or raised c for the decoded request_data
CallDone(c, request_data) ==
    [json_out |-> IF c.out.py = "raise" THEN CallOut("raise", NoText, c.out.exc)
                  ELSE IF c.out.py # "None" THEN ReturnText(json_dumps(c.out))
                  ELSE ReturnNone,
     rdata |-> request_data, out |-> c.out, calls |-> c.calls, md |-> c.md]

\* call once json.loads has returned or raised l; call_py is not reached (rdata
\* Absent) when the text does not decode
CallLoaded(l, metadata, md) ==
    IF l.raised # NoException
    THEN [json_out |-> ReturnText(json_dumps(Return(
                          _get_err(JSONRPCError("ParseError", Details(str(l.raised))),
                                   JNull, DEFAULT_JSONRPC)))),
          rdata |-> Absent, out |-> Return(PyNone), calls |-> <<>>, md |-> md]
    ELSE CallDone(call_py(l.value, metadata, md), l.value)

call(text, metadata, md) == CallLoaded(json_loads(text), metadata, md)

\* the texts given to call: the encodings of some requests, and malformed texts
Encode(rd) ==
    IF rd.type = "list" THEN JText(<<Tok("[")>> \o Join(rd.items, 1) \o <<Tok("]")>>)
    ELSE JText(<<rd>>)

CallRequests ==
    {Obj(i, JStr("2.0"), Absent, m, p, FALSE) :
        i \in {Absent, JStr("1")}, m \in {JStr("hello"), JStr("foofoo")},
        p \in {Absent, JDict("{'a': 5}")}}
    \cup {JInt("1"), PyList(<<>>), PyList(<<JInt("1"), JInt("1")>>),
          PyList(<<Obj(Absent, JStr("2.0"), Absent, JStr("hello"), Absent, FALSE)>>),
          PyList(<<Obj(JStr("1"), JStr("2.0"), Absent, JStr("hello"), Absent, FALSE)>>)}

Malformed ==
    {JText(<<>>),
     JText(<<Truncated>>),
     JText(<<Tok("["), JInt("1"), Tok(",")>>),
     JText(<<Tok("["), JInt("1"), JInt("1"), Tok("]")>>),
     JText(<<Tok("["), Tok("]"), Tok("]")>>),
     JText(<<Tok("["), Obj(JStr("1"), JStr("2.0"), Absent, JStr("hello"), Absent, FALSE),
             Tok(","), Truncated, Tok("]")>>),
     JText(<<JInt("1"), JInt("1")>>),
     JText(<<Tok("]")>>)}

Jsondatas == {Encode(rd) : rd \in CallRequests} \cup Malformed

\* ---------------------------------------------------------------- the service

NoCall == Out("None", EmptyDict, <<>>, NoException)

Init ==
    /\ method_data = [n \in Names |-> NotRegistered]
    /\ pc = "idle"
    /\ rdata = JNull
    /\ out = NoCall
    /\ calls = <<>>
    /\ jsondata = Absent
    /\ json_out = ReturnNone
    /\ added = [n \in Names |-> NotRegistered]

\* a variant that registers every function under its own name
add_own_name(f, name, schema) ==
    [method_data EXCEPT ![f] = [method |-> f, schema |-> schema]]

\* JSONRPCService.add(f, name, schema); name "None": the function's own name
add(f, name, schema) ==
    LET fname == IF name = "None" THEN f ELSE name
    IN  [method_data EXCEPT ![fname] = [method |-> f, schema |-> schema]]

Add ==
    /\ pc = "idle"
    /\ \E f \in Handlers, name \in AddNames, schema \in Schemas :
          /\ method_data' = add(f, name, schema)
          /\ added' = [n \in Names |->
                          IF n = name \/ (name = "None" /\ n = f)
                          THEN [method |-> f, schema |-> schema]
                          ELSE added[n]]
    /\ UNCHANGED <<pc, rdata, out, calls, jsondata, json_out>>

\* the embedder calls call_py(rdata, metadata)
CallPy ==
    /\ pc = "idle"
    /\ \E rd \in Rdatas :
          LET c == call_py(rd, Metadata, method_data)
          IN  /\ rdata' = rd
              /\ out' = c.out
              /\ calls' = c.calls
              /\ method_data' = c.md
    /\ pc' = "returned"
    /\ jsondata' = Absent
    /\ json_out' = ReturnNone
    /\ UNCHANGED added

\* the embedder calls call(jsondata, metadata)
Call ==
    /\ pc = "idle"
    /\ \E text \in Jsondatas :
          LET c == call(text, Metadata, method_data)
          IN  /\ jsondata' = text
              /\ json_out' = c.json_out
              /\ rdata' = c.rdata
              /\ out' = c.out
              /\ calls' = c.calls
              /\ method_data' = c.md
    /\ pc' = "returned"
    /\ UNCHANGED added

\* the embedder has sent the result back and waits for the next message
Receive ==
    /\ pc = "returned"
    /\ pc' = "idle"
    /\ rdata' = JNull
    /\ out' = NoCall
    /\ calls' = <<>>
    /\ jsondata' = Absent
    /\ json_out' = ReturnNone
    /\ UNCHANGED <<method_data, added>>

Next == Add \/ CallPy \/ Call \/ Receive

Spec == Init /\ [][Next]_vars

\* ---------------------------------------------------------------- a service whose functions register methods

\* the functions of the service above and register, each added under its own
\* name; batches of requests that name them
RegNames == Names \cup {"register"}
RegHandlers == Handlers \cup {"register"}
RegEntries ==
    {Obj(i, JStr("2.0"), Absent, JStr(m), p, FALSE) :
        i \in {Absent, JStr("1")}, m \in RegNames, p \in {Absent, JDict("{'a': 5}")}}
    \cup {JInt("1")}
RegBatches == {PyList(s) : s \in SeqsUpTo(RegEntries, MaxBatch)}

RegInit ==
    /\ method_data = [n \in RegNames |-> NotRegistered]
    /\ pc = "idle"
    /\ rdata = JNull
    /\ out = NoCall
    /\ calls = <<>>
    /\ jsondata = Absent
    /\ json_out = ReturnNone
    /\ added = [n \in RegNames |-> NotRegistered]

\* the embedder calls add(f, schema=schema)
RegAdd ==
    /\ pc = "idle"
    /\ \E f \in RegHandlers, schema \in Schemas :
          /\ method_data' = add(f, "None", schema)
          /\ added' = [added EXCEPT ![f] = [method |-> f, schema |-> schema]]
    /\ UNCHANGED <<pc, rdata, out, calls, jsondata, json_out>>

\* the embedder calls call_py(rdata, metadata) with a batch
RegCallPy ==
    /\ pc = "idle"
    /\ \E rd \in RegBatches :
          LET c == call_py(rd, Metadata, method_data)
          IN  /\ rdata' = rd
              /\ out' = c.out
              /\ calls' = c.calls
              /\ method_data' = c.md
    /\ pc' = "returned"
    /\ jsondata' = Absent
    /\ json_out' = ReturnNone
    /\ UNCHANGED added

RegNext == RegAdd \/ RegCallPy \/ Receive

RegSpec == RegInit /\ [][RegNext]_vars

\* ---------------------------------------------------------------- vocabulary of the properties

IsRegistered(n) == n \in DOMAIN method_data /\ method_data[n] # NotRegistered
RegisteredNames == {n \in DOMAIN method_data : method_data[n] # NotRegistered}

\* the last call was a single request (a non-empty object) / a non-empty batch
IsSingle == pc = "returned" /\ rdata.type = "dict" /\ rdata # Obj(Absent, Absent, Absent, Absent, Absent, FALSE)
IsBatch == pc = "returned" /\ rdata.type = "list" /\ Len(rdata.items) > 0

\* the fields of an object, judged as the envelope rules judge them
HasValidId(r) == r.id.type \in {"str", "int", "float"}
IdStepPasses(r) == r.id = Absent \/ HasValidId(r)
NamesV2_0(r) == r.jsonrpc = JStr("2.0")
NamesV1_1(r) == r.jsonrpc # JStr("2.0") /\ r.version = JStr("1.1")
HasValidVersion(r) == NamesV2_0(r) \/ NamesV1_1(r)
NamesRegistered(r) == r.method.type = "str" /\ IsRegistered(r.method.val)
ParamsPass(r) == r.params.type \in {"absent", "list", "dict"}
ParamsOf(r) == IF r.params = Absent THEN JNull ELSE r.params

\* the request's dialect is stamped on the response
CarriesDialectOf(r, resp) ==
    /\ NamesV2_0(r) => "jsonrpc" \in resp.keys /\ resp.jsonrpc = JStr("2.0")
    /\ NamesV1_1(r) => "version" \in resp.keys /\ resp.version = JStr("1.1")

\* the responses of the last call, whether it returned one or a list
Responses ==
    IF out.py = "dict" THEN {out.resp}
    ELSE IF out.py = "list" THEN {out.list[k] : k \in 1..Len(out.list)}
    ELSE {}

IsError(resp, code) == "error" \in resp.keys /\ resp.error.code = code

\* normalization of an entry against the registry of the state
Normalized(r) == _fill_request(_get_default_vals, r, method_data)
Normalizes(r) == Normalized(r).raised = NoException
SchemaOf(r) == method_data[r.method.val].schema
HandlerOf(r) == method_data[r.method.val].method
SchemaRejects(r) == SchemaOf(r) # "None" /\ validate(ParamsOf(r), SchemaOf(r)).raised # NoException
HandlerOutcome(r) == Invoke(HandlerOf(r), ParamsOf(r), Metadata)

\* ---------------------------------------------------------------- C1

\* C1: a single request with no id, a valid version, a registered string method
\* and params that are absent, a list or a mapping produces no output (None),
\* whether the handler returns, raises, or the schema rejects the params.
C1_NotificationNoOutput ==
    (/\ IsSingle
     /\ rdata.id = Absent
     /\ HasValidVersion(rdata)
     /\ NamesRegistered(rdata)
     /\ ParamsPass(rdata))
    => out.py = "None"

\* ---------------------------------------------------------------- C2

\* the entries of the last batch that pass normalization and the schema: the
\* ones whose handler a batch that isolates its entries invokes
Dispatched(items) ==
    {k \in 1..Len(items) : Normalizes(items[k]) /\ ~SchemaRejects(items[k])}

\* C2: in a non-empty batch no entry's error aborts the batch or replaces the
\* batch array by a single response: the output is an array (or nothing) and
\* every entry that passes normalization and its schema is dispatched.
C2_BatchEntriesIsolated ==
    IsBatch =>
        /\ out.py \in {"list", "None"}
        /\ Len(calls) = Cardinality(Dispatched(rdata.items))

\* ---------------------------------------------------------------- C3

\* every entry of the batch is an object that passes the id step
AllPassIdStep(items) ==
    \A k \in 1..Len(items) : items[k].type = "dict" /\ IdStepPasses(items[k])

\* C3: every response to a request whose version step resolved to V1_1 carries
\* version = "1.1", and to one resolved to V2_0 jsonrpc = "2.0": for successes
\* and for errors detected after the version step, for a single request and for
\* the entries of a batch that all name the same dialect.
C3_ResponseCarriesDialect ==
    /\ (IsSingle /\ IdStepPasses(rdata) /\ HasValidVersion(rdata))
          => \A resp \in Responses : CarriesDialectOf(rdata, resp)
    /\ (IsBatch /\ AllPassIdStep(rdata.items))
          => /\ (\A k \in 1..Len(rdata.items) : NamesV1_1(rdata.items[k]))
                   => \A resp \in Responses :
                         "version" \in resp.keys /\ resp.version = JStr("1.1")
             /\ (\A k \in 1..Len(rdata.items) : NamesV2_0(rdata.items[k]))
                   => \A resp \in Responses :
                         "jsonrpc" \in resp.keys /\ resp.jsonrpc = JStr("2.0")

\* ---------------------------------------------------------------- C4

WellFormed(resp) ==
    /\ "id" \in resp.keys
    /\ ("jsonrpc" \in resp.keys) # ("version" \in resp.keys)
    /\ "jsonrpc" \in resp.keys => resp.jsonrpc = JStr("2.0")
    /\ "version" \in resp.keys => resp.version = JStr("1.1")
    /\ ("result" \in resp.keys) # ("error" \in resp.keys)

\* C4: every response object call_py emits, alone or in a batch array, has an
\* id, exactly one version field and exactly one of result and error.
C4_ResponsesWellFormed ==
    pc = "returned" => \A resp \in Responses : WellFormed(resp)

\* ---------------------------------------------------------------- C5

\* C5: when the handler of a request with an id raises, whatever its message
\* attribute, call_py returns an error response with code -32000, the request's
\* id, the exception's class name in data and data.method the called method;
\* the exception does not leave call_py.
C5_HandlerExceptionAbsorbed ==
    (/\ IsSingle
     /\ HasValidId(rdata)
     /\ Normalizes(rdata)
     /\ ~SchemaRejects(rdata)
     /\ HandlerOutcome(rdata).raised # NoException)
    => LET err == HandlerOutcome(rdata).raised
       IN  /\ out.py = "dict"
           /\ IsError(out.resp, -32000)
           /\ out.resp.id = rdata.id
           /\ out.resp.error.data.method = rdata.method.val
           /\ \/ out.resp.error.data.details = err.cls
              \/ /\ err.hasmessage
                 /\ err.message.type = "str"
                 /\ out.resp.error.data.details = err.cls \o ": " \o err.message.val

\* ---------------------------------------------------------------- C6

\* the entries that carry a valid id carry pairwise distinct ids
DistinctIds(items) ==
    \A k, l \in 1..Len(items) :
        (/\ k # l
         /\ items[k].type = "dict" /\ HasValidId(items[k])
         /\ items[l].type = "dict" /\ HasValidId(items[l]))
        => items[k].id # items[l].id

\* an entry with no id that is a valid request object: its envelope is not an
\* InvalidRequest (its method may be unregistered; _get_err answers neither)
ValidNotification(e) ==
    /\ e.type = "dict" /\ e.id = Absent
    /\ Normalized(e).raised.cls # "InvalidRequestError"

\* an entry that fails envelope validation with InvalidRequest and has no valid id
InvalidWithoutId(e) ==
    /\ Normalized(e).raised.cls = "InvalidRequestError"
    /\ e.type = "dict" => ~HasValidId(e)

\* the entry's own outcome, as far as the claim names it
OwnOutcome(e, resp) ==
    /\ (Normalizes(e) /\ ~SchemaRejects(e) /\ HandlerOutcome(e).raised = NoException)
          => "result" \in resp.keys /\ resp.result = HandlerOutcome(e).value
    /\ (Normalizes(e) /\ ~SchemaRejects(e) /\ HandlerOutcome(e).raised # NoException)
          => IsError(resp, -32000)
    /\ Normalized(e).raised.cls = "MethodNotFoundError" => IsError(resp, -32601)

\* C6: a non-empty batch whose ids are pairwise distinct is answered by exactly
\* one response per entry with a valid id, carrying that id and the entry's own
\* outcome, one id-null -32600 response per entry that fails envelope
\* validation without an id, and nothing for valid notifications: as many
\* responses as entries that are no valid notification.
C6_BatchOneResponsePerEntry ==
    (IsBatch /\ DistinctIds(rdata.items)) =>
        LET items == rdata.items
            n == Len(items)
        IN  /\ out.py \in {"list", "None"}
            /\ Len(out.list)
                 = n - Cardinality({k \in 1..n : ValidNotification(items[k])})
            /\ \A k \in 1..n :
                  (items[k].type = "dict" /\ HasValidId(items[k])) =>
                      /\ Cardinality({j \in 1..Len(out.list) :
                                         out.list[j].id = items[k].id}) = 1
                      /\ \A j \in 1..Len(out.list) :
                            out.list[j].id = items[k].id
                               => OwnOutcome(items[k], out.list[j])
            /\ Cardinality({j \in 1..Len(out.list) :
                               out.list[j].id = JNull /\ IsError(out.list[j], -32600)})
                 = Cardinality({k \in 1..n : InvalidWithoutId(items[k])})

\* ---------------------------------------------------------------- C7

\* C7: a single request with an id whose params violate the schema of its
\* method is answered by an error with code -32602, message "Invalid params",
\* the validator's message in data.details, the request's id and dialect, and
\* the handler is not invoked.
C7_SchemaViolationIsInvalidParams ==
    (IsSingle /\ HasValidId(rdata) /\ Normalizes(rdata) /\ SchemaRejects(rdata))
    => /\ out.py = "dict"
       /\ out.resp.keys \cap {"error", "result"} = {"error"}
       /\ out.resp.error.code = -32602
       /\ out.resp.error.message = "Invalid params"
       /\ out.resp.error.data
            = Details(validate(ParamsOf(rdata), SchemaOf(rdata)).raised.message.val)
       /\ out.resp.id = rdata.id
       /\ CarriesDialectOf(rdata, out.resp)
       /\ calls = <<>>

C7_Witness ==
    /\ IsSingle /\ HasValidId(rdata) /\ Normalizes(rdata) /\ SchemaRejects(rdata)
    /\ NamesV1_1(rdata)
    /\ rdata.params.type = "list"
    /\ IsError(out.resp, -32602)

\* ---------------------------------------------------------------- C8

\* C8: a single request with a valid id and version whose method is a string
\* that is not registered is answered by an error with code -32601 and the
\* request's id, whose data lists exactly the registered method names, and no
\* handler is invoked.
C8_UnregisteredMethodNotFound ==
    (/\ IsSingle
     /\ HasValidId(rdata)
     /\ HasValidVersion(rdata)
     /\ rdata.method.type = "str"
     /\ ~IsRegistered(rdata.method.val))
    => /\ out.py = "dict"
       /\ out.resp.keys \cap {"error", "result"} = {"error"}
       /\ out.resp.error.code = -32601
       /\ out.resp.id = rdata.id
       /\ out.resp.error.data = AvailableMethods(RegisteredNames)
       /\ calls = <<>>

C8_Witness ==
    /\ IsSingle /\ HasValidId(rdata) /\ HasValidVersion(rdata)
    /\ rdata.method = JStr("broken_func")
    /\ RegisteredNames = {"hello"}
    /\ IsError(out.resp, -32601)

\* ---------------------------------------------------------------- C9

\* C9: a single request with a valid id and version and list, mapping or no
\* params that names a method registered without a schema, whose handler
\* returns v, is answered by exactly one response with result v, the request's
\* id and the request's dialect.
C9_ResultWrappedWithIdAndDialect ==
    (/\ IsSingle
     /\ HasValidId(rdata)
     /\ HasValidVersion(rdata)
     /\ NamesRegistered(rdata)
     /\ ParamsPass(rdata)
     /\ SchemaOf(rdata) = "None"
     /\ HandlerOutcome(rdata).raised = NoException)
    => /\ out.py = "dict"
       /\ out.resp.keys \cap {"error", "result"} = {"result"}
       /\ out.resp.result = HandlerOutcome(rdata).value
       /\ out.resp.id = rdata.id
       /\ CarriesDialectOf(rdata, out.resp)
       /\ Len(calls) = 1

C9_Witness ==
    /\ IsSingle /\ HasValidId(rdata) /\ NamesV1_1(rdata)
    /\ NamesRegistered(rdata) /\ SchemaOf(rdata) = "None"
    /\ rdata.params.type = "list"
    /\ out.py = "dict" /\ out.resp.result = rdata.params

\* ---------------------------------------------------------------- C10

\* an object without an id field, or an entry that is no object
HasNoIdField(e) == e.type = "dict" => e.id = Absent

\* C10: a request without an id field that fails envelope validation with
\* InvalidRequest is answered by an error with code -32600 and id null, alone
\* and as an entry of a batch.
C10_InvalidRequestNeverSuppressed ==
    /\ (/\ IsSingle
        /\ rdata.id = Absent
        /\ Normalized(rdata).raised.cls = "InvalidRequestError")
          => /\ out.py = "dict"
             /\ IsError(out.resp, -32600)
             /\ out.resp.id = JNull
    /\ IsBatch =>
          LET bad == {k \in 1..Len(rdata.items) :
                         /\ HasNoIdField(rdata.items[k])
                         /\ Normalized(rdata.items[k]).raised.cls = "InvalidRequestError"}
          IN  bad # {} =>
                 /\ out.py = "list"
                 /\ Cardinality({j \in 1..Len(out.list) :
                        out.list[j].id = JNull /\ IsError(out.list[j], -32600)})
                      >= Cardinality(bad)

\* ---------------------------------------------------------------- C11

\* C11: call_py on an empty list returns one error response, not a list, with
\* code -32600, id null, jsonrpc = "2.0" and the details "Batch request array
\* is empty", and invokes no handler.
C11_EmptyBatchSingleError ==
    (pc = "returned" /\ rdata = PyList(<<>>))
    => /\ out.py = "dict"
       /\ out.resp.keys = {"id", "jsonrpc", "error"}
       /\ out.resp.id = JNull
       /\ out.resp.jsonrpc = JStr("2.0")
       /\ out.resp.error
            = [code |-> -32600, message |-> "Invalid Request",
               data |-> Details("Batch request array is empty")]
       /\ calls = <<>>

C11_Witness ==
    /\ pc = "returned" /\ rdata = PyList(<<>>)
    /\ RegisteredNames = {"hello", "broken_func"}
    /\ IsError(out.resp, -32600)

\* ---------------------------------------------------------------- C12

\* an entry that is a valid notification: no id, a valid version, a registered
\* method, and params that pass the params step
BatchNotification(e) ==
    /\ e.type = "dict" /\ e.id = Absent
    /\ HasValidVersion(e) /\ NamesRegistered(e) /\ ParamsPass(e)

\* the number of response objects in what call_py returned
OutputCount ==
    IF out.py = "list" THEN Len(out.list) ELSE IF out.py = "dict" THEN 1 ELSE 0

\* C12: in a batch the valid notifications contribute no element to the output,
\* whether their handler returns or raises: there are at most as many responses
\* as other entries, a batch of notifications only returns None, and call_py
\* never returns an empty list.
C12_BatchNotificationsSilent ==
    IsBatch =>
        LET items == rdata.items
            n == Len(items)
            notes == {k \in 1..n : BatchNotification(items[k])}
        IN  /\ OutputCount <= n - Cardinality(notes)
            /\ Cardinality(notes) = n => out.py = "None"
            /\ out.py = "list" => Len(out.list) > 0

\* ---------------------------------------------------------------- C13

\* a token of a text that is a response object
IsResponse(t) == "keys" \in DOMAIN t

C14_NonObjectEntriesAnswered ==
    (IsBatch /\ \A k \in 1..Len(rdata.items) : rdata.items[k].type # "dict")
    => /\ out.py = "list"
       /\ Len(out.list) = Len(rdata.items)
       /\ \A j \in 1..Len(out.list) :
             /\ out.list[j].keys = {"id", "jsonrpc", "error"}
             /\ out.list[j].id = JNull
             /\ out.list[j].jsonrpc = JStr("2.0")
             /\ out.list[j].error.code = -32600
             /\ out.list[j].error.message = "Invalid Request"
       /\ calls = <<>>

C14_Witness ==
    /\ IsBatch
    /\ rdata.items = <<JNull, JList("[5]")>>
    /\ RegisteredNames # {}
    /\ out.py = "list" /\ Len(out.list) = 2

\* ---------------------------------------------------------------- C15

\* the single request reaches the params step: id, version and method pass
ReachesParamsStep ==
    /\ IsSingle /\ IdStepPasses(rdata) /\ HasValidVersion(rdata)
    /\ NamesRegistered(rdata)

\* what the params step reports for a params value of the wrong type
InvalidParamsType(resp) ==
    /\ IsError(resp, -32600)
    /\ resp.error.data = Details("Invalid type for the 'params' field")

\* C15: a request whose params field is null passes the params step and is
\* dispatched with no parameters, exactly like the request without the params
\* field; the params step yields InvalidRequest only for a value that is
\* neither a list, a mapping nor null.
C15_NullParamsAccepted ==
    ReachesParamsStep =>
        /\ rdata.params = JNull =>
              LET same == call_py([rdata EXCEPT !.params = Absent], Metadata, method_data)
              IN  out = same.out /\ calls = same.calls
        /\ (out.py = "dict" /\ InvalidParamsType(out.resp))
              => rdata.params.type \notin {"absent", "list", "dict", "NoneType"}

\* ---------------------------------------------------------------- C16

\* the outcome of the version step as the rules state it
VersionRule(r) ==
    IF r.jsonrpc = JStr("2.0") THEN "V2_0"
    ELSE IF r.version = JStr("1.1") THEN "V1_1"
    ELSE IF r.jsonrpc # Absent \/ r.version # Absent THEN "Invalid JSON-RPC version"
    ELSE "Missing JSON-RPC version"

\* the response is stamped with exactly the field of the dialect
StampedV2_0(resp) ==
    /\ resp.keys \cap {"jsonrpc", "version"} = {"jsonrpc"}
    /\ resp.jsonrpc = JStr("2.0")
StampedV1_1(resp) ==
    /\ resp.keys \cap {"jsonrpc", "version"} = {"version"}
    /\ resp.version = JStr("1.1")

\* the last call was answered with a result
Succeeded == out.py = "dict" /\ "result" \in out.resp.keys

\* C16: for a single request that passes the id step, whatever the jsonrpc and
\* version fields hold: jsonrpc = "2.0" resolves to V2_0, else version = "1.1"
\* to V1_1 (a result is stamped with that dialect); else the request is
\* answered InvalidRequest with "Invalid JSON-RPC version" when a field is
\* present and "Missing JSON-RPC version" when none is, and no handler runs.
C16_VersionStepResolves ==
    (IsSingle /\ IdStepPasses(rdata)) =>
        LET rule == VersionRule(rdata)
        IN  /\ rule = "V2_0" =>
                  /\ Normalized(rdata).request.jsonrpc = Tuple("(2, 0)")
                  /\ Succeeded => StampedV2_0(out.resp)
            /\ rule = "V1_1" =>
                  /\ Normalized(rdata).request.jsonrpc = Tuple("(1, 1)")
                  /\ Succeeded => StampedV1_1(out.resp)
            /\ rule \notin {"V2_0", "V1_1"} =>
                  /\ out.py = "dict"
                  /\ IsError(out.resp, -32600)
                  /\ out.resp.error.data = Details(rule)
                  /\ out.resp.id = Normalized(rdata).request.id
                  /\ calls = <<>>

C16_Witness ==
    /\ IsSingle /\ HasValidId(rdata)
    /\ rdata.jsonrpc = JStr("9999") /\ rdata.version = JStr("1.1")
    /\ Succeeded /\ StampedV1_1(out.resp)

\* ---------------------------------------------------------------- C17

\* an object whose id field is present with a value of the wrong type
HasInvalidId(e) == e.type = "dict" /\ e.id # Absent /\ ~HasValidId(e)

\* the response is the InvalidRequest error with id null
InvalidRequestNullId(resp) == IsError(resp, -32600) /\ resp.id = JNull

\* C17: a request whose id is present but no string, integer or float is
\* answered InvalidRequest with id null and no handler runs for it; a string or
\* numeric id is kept as it is, and every response to a request, success or
\* error, carries exactly the id of that request; alone and in a batch.
C17_IdKeptOrRejected ==
    /\ (IsSingle /\ HasInvalidId(rdata))
          => /\ out.py = "dict"
             /\ InvalidRequestNullId(out.resp)
             /\ out.resp.error.data = Details("Invalid type for the 'id' field")
             /\ calls = <<>>
    /\ (IsSingle /\ HasValidId(rdata))
          => /\ Normalized(rdata).request.id = rdata.id
             /\ \A resp \in Responses : resp.id = rdata.id
    /\ IsBatch =>
          LET items == rdata.items
              n == Len(items)
              bad == {k \in 1..n : HasInvalidId(items[k])}
          IN  /\ bad # {} =>
                    /\ out.py = "list"
                    /\ Cardinality({j \in 1..Len(out.list) :
                                       InvalidRequestNullId(out.list[j])})
                         >= Cardinality(bad)
              /\ Len(calls) <= n - Cardinality(bad)
              /\ (\A k \in 1..n : items[k].type = "dict" /\ HasValidId(items[k]))
                    => \A resp \in Responses :
                          \E k \in 1..n : resp.id = items[k].id

\* ---------------------------------------------------------------- C18

\* a single request that reaches the method step with a string method
NamesMethod ==
    /\ IsSingle /\ HasValidId(rdata) /\ HasValidVersion(rdata)
    /\ rdata.method.type = "str" /\ rdata.method.val \in Names
    /\ ParamsPass(rdata)

\* the call is served by the entry e: not found when there is none, rejected
\* by the schema of e, or handed to the function of e
ServedBy(e) ==
    IF e = NotRegistered THEN out.py = "dict" /\ IsError(out.resp, -32601) /\ calls = <<>>
    ELSE IF e.schema # "None" /\ validate(ParamsOf(rdata), e.schema).raised # NoException
    THEN out.py = "dict" /\ IsError(out.resp, -32602) /\ calls = <<>>
    ELSE calls = <<[name |-> rdata.method.val, method |-> e.method,
                    params |-> ParamsOf(rdata), metadata |-> Metadata]>>

\* the registry holds, under every name, the last add under that name
RegistryIsLastAdds == method_data = added

\* a step changes the registry under the names an add was made under only, and
\* a step that is a call changes no entry
RegistryFrame ==
    /\ \A n \in Names : added'[n] = added[n] => method_data'[n] = method_data[n]
    /\ pc' = "returned" => method_data' = method_data

\* C18: after any sequence of adds a call naming n invokes the function and
\* applies the schema of the most recent add under n (the function's own name
\* when add is given no name); an add leaves the entries of all other names
\* unchanged, and call and call_py change no entry.
C18_RegistryLastAddWins ==
    /\ [](RegistryIsLastAdds /\ (NamesMethod => ServedBy(added[rdata.method.val])))
    /\ [][RegistryFrame]_vars

C18_Witness ==
    /\ NamesMethod
    /\ rdata.method = JStr("hello")
    /\ added["hello"] = [method |-> "broken_func", schema |-> "object"]
    /\ added["broken_func"] = [method |-> "broken_func", schema |-> "None"]
    /\ rdata.params.type = "dict"
    /\ Len(calls) = 1 /\ calls[1].method = "broken_func"

\* ---------------------------------------------------------------- C19

EmptyObject == Obj(Absent, Absent, Absent, Absent, Absent, FALSE)

\* call_py was given a value that is no list and no non-empty object
NoRequestObject ==
    /\ pc = "returned"
    /\ rdata.type \notin {"absent", "list"}
    /\ rdata.type = "dict" => rdata = EmptyObject

\* C19: a top-level value that is no mapping and no list (a number, a string,
\* a boolean, null), and likewise the empty mapping, is answered by one
\* InvalidRequest error response with code -32600, id null and jsonrpc = "2.0",
\* and no handler is invoked.
C19_NonObjectTopLevelInvalid ==
    NoRequestObject
    => /\ out.py = "dict"
       /\ out.resp.keys = {"id", "jsonrpc", "error"}
       /\ out.resp.id = JNull
       /\ out.resp.jsonrpc = JStr("2.0")
       /\ out.resp.error
            = [code |-> -32600, message |-> "Invalid Request", data |-> NoData]
       /\ calls = <<>>

C19_Witness ==
    /\ NoRequestObject
    /\ rdata = JBool("True")
    /\ RegisteredNames = {"hello", "broken_func"}
    /\ IsError(out.resp, -32600)

\* ---------------------------------------------------------------- C20

\* the steps in the stated order, and the error each raises on r by itself
Steps == <<"id", "version", "method", "params">>
StepError(step, r) ==
    CASE step = "id" -> _get_id(r).raised
      [] step = "version" -> _get_jsonrpc(r).raised
      [] step = "method" -> _get_method(r, method_data).raised
      [] step = "params" -> _get_params(r).raised

\* the first step that fails on r, 0 when none does
FirstFailing(r) ==
    IF \A k \in 1..4 : StepError(Steps[k], r) = NoException THEN 0
    ELSE CHOOSE k \in 1..4 :
            /\ StepError(Steps[k], r) # NoException
            /\ \A l \in 1..(k - 1) : StepError(Steps[l], r) = NoException

\* r without the fields that the steps after step k read (an object that is
\* left with no field at all is no request any more, and is not compared)
WithoutLaterFields(r, k) ==
    [r EXCEPT !.jsonrpc = IF k < 2 THEN Absent ELSE @,
              !.version = IF k < 2 THEN Absent ELSE @,
              !.method = IF k < 3 THEN Absent ELSE @,
              !.params = IF k < 4 THEN Absent ELSE @]

\* C20: the envelope of a single request is validated in the order id, version,
\* method, params and the error reported is that of the first failing step: an
\* invalid id or version beside an unregistered method is an InvalidRequest, an
\* unregistered method beside params of an invalid type is MethodNotFound; no
\* handler runs, and what the fields of the later steps hold changes nothing.
C20_FirstFailingStepReported ==
    (IsSingle /\ FirstFailing(rdata) # 0) =>
        LET k == FirstFailing(rdata)
            e == StepError(Steps[k], rdata)
        IN  /\ calls = <<>>
            /\ out.py \in {"dict", "None"}
            /\ out.py = "None" <=> (e.cls = "MethodNotFoundError" /\ rdata.id = Absent)
            /\ out.py = "dict" =>
                  /\ out.resp.keys \cap {"error", "result"} = {"error"}
                  /\ out.resp.error = dumps(e)
            /\ (~IdStepPasses(rdata) /\ ~NamesRegistered(rdata))
                  => IsError(out.resp, -32600)
            /\ (IdStepPasses(rdata) /\ ~HasValidVersion(rdata) /\ ~NamesRegistered(rdata))
                  => IsError(out.resp, -32600)
            /\ (/\ HasValidId(rdata) /\ HasValidVersion(rdata)
                /\ rdata.method.type = "str" /\ ~IsRegistered(rdata.method.val)
                /\ ~ParamsPass(rdata))
                  => IsError(out.resp, -32601)
            /\ (k < 4 /\ WithoutLaterFields(rdata, k) # EmptyObject)
                  => out = call_py(WithoutLaterFields(rdata, k), Metadata, method_data).out

C20_Witness ==
    /\ IsSingle /\ FirstFailing(rdata) = 3
    /\ HasValidId(rdata)
    /\ rdata.method = JStr("foofoo")
    /\ rdata.params = JStr("bar")
    /\ IsRegistered("hello")
    /\ IsError(out.resp, -32601)

\* ---------------------------------------------------------------- C21

ReservedPairs ==
    {<<-32700, "Parse error">>, <<-32600, "Invalid Request">>,
     <<-32601, "Method not found">>, <<-32602, "Invalid params">>,
     <<-32000, "Server error">>}

\* the response objects of the last call: those call_py returned and those in
\* the text call returned
Emitted ==
    Responses \cup {json_out.text.tokens[k] : k \in 1..Len(json_out.text.tokens)}

\* C21: every error object that call or call_py emits carries one of the pairs
\* (-32700, "Parse error"), (-32600, "Invalid Request"), (-32601, "Method not
\* found"), (-32602, "Invalid params"), (-32000, "Server error"): never code
\* -32603 and no code outside -32768..-32000, whatever the input and whatever
\* the function raises.
C21_OnlyReservedErrors ==
    pc = "returned" =>
        \A resp \in Emitted :
            (IsResponse(resp) /\ "error" \in resp.keys) =>
                /\ <<resp.error.code, resp.error.message>> \in ReservedPairs
                /\ resp.error.code # -32603
                /\ resp.error.code \in -32768..-32000

C21_Witness ==
    /\ IsSingle /\ HasValidId(rdata)
    /\ rdata.params = JList("[-32603]")
    /\ Len(calls) = 1 /\ calls[1].method = "broken_func"
    /\ IsError(out.resp, -32000)
    /\ out.resp.error.data.details = "InternalError: Internal error"

\* ---------------------------------------------------------------- C22

\* what is compared of a response: its id, its version field, its error code
\* (0: none) and its result
Essence(resp) ==
    [id |-> resp.id, jsonrpc |-> resp.jsonrpc, version |-> resp.version,
     code |-> resp.error.code, result |-> resp.result]

\* what call_py returns for the entry submitted alone, against the registry
\* of the state
Alone(entry) == call_py(entry, Metadata, method_data).out

\* the responses the last call returned, as a sequence
ResponseSeq ==
    IF out.py = "list" THEN out.list
    ELSE IF out.py = "dict" THEN <<out.resp>>
    ELSE <<>>

\* how many responses of the batch, and how many entries submitted alone, give v
BatchGives(v) ==
    Cardinality({k \in 1..Len(ResponseSeq) : Essence(ResponseSeq[k]) = v})
AloneGives(v) ==
    Cardinality({k \in 1..Len(rdata.items) :
                    /\ Alone(rdata.items[k]).py = "dict"
                    /\ Essence(Alone(rdata.items[k]).resp) = v})

\* the entries that are single requests when submitted alone (a list would
\* be a batch of its own)
EntriesAreSingle == \A k \in 1..Len(rdata.items) : rdata.items[k].type # "list"

\* C22: a batch answers each of its entries as call_py answers the entry
\* submitted alone against the same registry: the responses of the batch and
\* the responses of the entries alone are the same, with the same id, version
\* field, error code and result, each as many times, and an entry that has no
\* response alone has none in the batch.
C22_BatchEntryAsSingle ==
    (IsBatch /\ EntriesAreSingle) =>
        /\ \A k \in 1..Len(ResponseSeq) :
              AloneGives(Essence(ResponseSeq[k])) = BatchGives(Essence(ResponseSeq[k]))
        /\ \A k \in 1..Len(rdata.items) :
              Alone(rdata.items[k]).py = "dict" =>
                  BatchGives(Essence(Alone(rdata.items[k]).resp))
                      = AloneGives(Essence(Alone(rdata.items[k]).resp))

\* ---------------------------------------------------------------- C23

\* the request passes the four envelope steps and the schema of its method
Passes(r) == r.type = "dict" /\ Normalizes(r) /\ ~SchemaRejects(r)

\* the invocation the request is owed
Owed(r) == Invocation(Normalized(r).request, HandlerOf(r), Metadata)

\* how many invocations of the last call, and how many passing entries, are v
Invoked(v) == Cardinality({k \in 1..Len(calls) : calls[k] = v})
OwedBy(items, v) ==
    Cardinality({k \in 1..Len(items) : Passes(items[k]) /\ Owed(items[k]) = v})
PassingEntries(items) == {k \in 1..Len(items) : Passes(items[k])}

\* C23: the function of a request is invoked exactly once when the request, a
\* single one or an entry of a batch, passes the four envelope steps and the
\* schema of its method, a notification like any other, and not at all when
\* the request fails a step or the schema.
C23_InvokedExactlyOnce ==
    /\ IsSingle =>
          calls = IF Passes(rdata) THEN <<Owed(rdata)>> ELSE <<>>
    /\ IsBatch =>
          /\ Len(calls) = Cardinality(PassingEntries(rdata.items))
          /\ \A k \in 1..Len(calls) :
                Invoked(calls[k]) = OwedBy(rdata.items, calls[k])

\* ---------------------------------------------------------------- C24

\* the entry passes the four envelope steps against the registry md
EnvelopePasses(r, md) ==
    r.type = "dict" /\ _fill_request(_get_default_vals, r, md).raised = NoException

\* the entry fails the method step alone: it names a method md does not hold
MethodNotFoundIn(r, md) ==
    /\ r.type = "dict"
    /\ _fill_request(_get_default_vals, r, md).raised # NoException
    /\ _fill_request(_get_default_vals, r, md).raised.cls = "MethodNotFoundError"

\* the (method name, params) pairs of the entries that pass against md, in
\* input order, and those of a sequence of invocations
PassedEntries(items, md) == SelectSeq(items, LAMBDA r : EnvelopePasses(r, md))
OwedCalls(items, md) ==
    [k \in 1..Len(PassedEntries(items, md)) |->
        <<PassedEntries(items, md)[k].method.val, ParamsOf(PassedEntries(items, md)[k])>>]
MadeCalls(c) == [k \in 1..Len(c) |-> <<c[k].name, c[k].params>>]

IsPrefix(s, t) == Len(s) <= Len(t) /\ \A k \in 1..Len(s) : s[k] = t[k]

\* a step that is a call of call_py with a non-empty batch
BatchStep ==
    pc = "idle" /\ pc' = "returned" /\ rdata'.type = "list" /\ Len(rdata'.items) > 0

\* C24: in a batch every entry is normalized, its method looked up included,
\* against the registry as it is when the call starts, before any function
\* runs; the functions of the entries that passed then run in input order
\* (all of them when the batch is answered by a list or by nothing), and an
\* entry naming a method that is not registered when the call starts is not
\* dispatched and is answered by -32601, also when a function of the same
\* batch registers the method.
C24_ValidationBeforeHandlers ==
    [][BatchStep =>
          /\ IsPrefix(MadeCalls(calls'), OwedCalls(rdata'.items, method_data))
          /\ out'.py \in {"list", "None"} =>
                MadeCalls(calls') = OwedCalls(rdata'.items, method_data)
          /\ \A k \in 1..Len(rdata'.items) :
                MethodNotFoundIn(rdata'.items[k], method_data) =>
                    /\ Len(calls') <= Len(rdata'.items) - 1
                    /\ (out'.py = "list" /\ HasValidId(rdata'.items[k])) =>
                          \E j \in 1..Len(out'.list) :
                              /\ out'.list[j].id = rdata'.items[k].id
                              /\ IsError(out'.list[j], -32601)
      ]_vars

\* register and then hello, in a batch of a service that holds no hello when
\* the call starts: register ran and registered hello, hello did not run
C24_Witness ==
    /\ IsBatch /\ Len(rdata.items) = 2
    /\ rdata.items[1].type = "dict" /\ rdata.items[2].type = "dict"
    /\ rdata.items[1].method = JStr("register")
    /\ rdata.items[2].method = JStr("hello") /\ HasValidId(rdata.items[2])
    /\ MadeCalls(calls) = <<<<"register", JNull>>>>
    /\ IsRegistered("hello")
    /\ out.py = "list"
    /\ \E j \in 1..Len(out.list) : IsError(out.list[j], -32601)

====
